---- MODULE Spec2Model ----
(***************************************************************************)
(* SHA-256 streaming digest of sha256.go: the digest state machine         *)
(* (Reset / Write / Sum / checkSum), the one-shot helpers Sum256 and       *)
(* Sum256D32, and the dispatch of the compression backend.                 *)
(*                                                                         *)
(* The compression kernels (blockGeneric, blockAvx2Go, ...) are not part   *)
(* of sha256.go.  They are modelled as an opaque pure function: the value  *)
(* of the eight hash words is represented by the pair                      *)
(*     [iv |-> the words the chain started from,                           *)
(*      blocks |-> the 64-byte blocks compressed since, in order]          *)
(* so two hash states are equal exactly when they were produced by         *)
(* chaining the same blocks from the same start.  An equality of digests   *)
(* established here therefore holds for every kernel.                      *)
(* Where the value of a digest matters (the known vectors), the pair is    *)
(* evaluated with the compression function of FIPS 180-4.                  *)
(***************************************************************************)
EXTENDS Integers, Sequences, FiniteSets, TLC

VARIABLES caps, d, m, nops, fed, taken, op, ret, procs

vars == <<caps, d, m, nops, fed, taken, op, ret, procs>>

(***************************************************************************)
(* Constants of the program                                                *)
(***************************************************************************)
Size == 32
BlockSize == 64
chunk == 64

\* A uint32 constant is written as <<high 16 bits, low 16 bits>>.
Init0 == <<27145, 58983>>
Init1 == <<47975, 44677>>
Init2 == <<15470, 62322>>
Init3 == <<42319, 62778>>
Init4 == <<20750, 21119>>
Init5 == <<39685, 26764>>
Init6 == <<8067, 55723>>
Init7 == <<23520, 52505>>

(***************************************************************************)
(* Bounds of the model                                                     *)
(***************************************************************************)
\* Operations (Reset, Write, Sum) performed on the instance in its life.
MaxOps == 4
\* Bytes written between two Resets.
MaxTotal == 130

\* Lengths of the byte sequences a caller passes to Write: empty, less than
\* a block, one short of a block, a block, one more, two blocks.
WriteLens == {0, 1, 63, 64, 65, 128}
\* The prefixes a caller passes to Sum.
Prefixes == {<<>>, <<7, 9>>}

\* Data(n, s) is the n-byte input whose i-th byte is (s * i) mod 256.
Data(n, s) == [i \in 1..n |-> (s * i) % 256]

\* The inputs of Write: a counting pattern of each length, and two inputs that
\* look like the padding finalization appends (0x80, then zeros).
Inputs ==
    {Data(n, 1) : n \in WriteLens}
        \cup {<<128>>, [i \in 1..chunk |-> IF i = 1 THEN 128 ELSE 0]}

Min(a, b) == IF a < b THEN a ELSE b

Zeros(n) == [i \in 1..n |-> 0]

\* s[from+1 .. ] in Go's p[from:]
Drop(s, n) == SubSeq(s, n + 1, Len(s))
\* Go's p[:n]
Take(s, n) == SubSeq(s, 1, n)

RECURSIVE Flatten(_)
Flatten(ss) == IF ss = <<>> THEN <<>> ELSE Head(ss) \o Flatten(Tail(ss))

(***************************************************************************)
(* Capability configuration and backend dispatch                           *)
(***************************************************************************)
Flags == [avx2 : BOOLEAN, avx : BOOLEAN, ssse3 : BOOLEAN, armSha : BOOLEAN]

Cap(a, b, c, e) == [avx2 |-> a, avx |-> b, ssse3 |-> c, armSha |-> e]

\* The configurations a digest instance is driven under, one for each
\* accelerated backend: hosts with AVX2 (which also have AVX and SSSE3), with
\* AVX, with SSSE3 only, and an ARM host with the SHA extension.  (With no
\* flag set New hands out the standard library's hash, not a digest.)
CapConfigs ==
    {Cap(TRUE, TRUE, TRUE, FALSE), Cap(FALSE, TRUE, TRUE, FALSE),
     Cap(FALSE, FALSE, TRUE, FALSE), Cap(FALSE, FALSE, FALSE, TRUE)}

\* The full 64-byte blocks of a run, in order (a kernel loops
\* "for len(p) >= chunk" and leaves a trailing partial block untouched).
RECURSIVE SplitBlocks(_)
SplitBlocks(p) ==
    IF Len(p) < chunk THEN <<>>
    ELSE <<Take(p, chunk)>> \o SplitBlocks(Drop(p, chunk))

\* The kernel contract: chain the compression over the blocks of p.
\* Every variant computes the same function of (h, p).
compress(variant, h, p) == [h EXCEPT !.blocks = @ \o SplitBlocks(p)]

\* dispatch testing armSha first.
dispatchArmFirst(c) ==
    IF c.armSha THEN "armSha"
    ELSE IF c.avx2 THEN "avx2"
    ELSE IF c.avx THEN "avx"
    ELSE IF c.ssse3 THEN "ssse3"
    ELSE "generic"

\* The switch of block:
\* switch true { case avx2: ... case avx: ... case ssse3: ... case armSha: ... default: ... }
dispatch(c) ==
    IF c.avx2 THEN "avx2"
    ELSE IF c.avx THEN "avx"
    ELSE IF c.ssse3 THEN "ssse3"
    ELSE IF c.armSha THEN "armSha"
    ELSE "generic"

\* The switch of Block, which calls the Direct form of each kernel.
dispatchDirect(c) ==
    CASE c.avx2 -> "avx2"
      [] ~c.avx2 /\ c.avx -> "avx"
      [] ~c.avx2 /\ ~c.avx /\ c.ssse3 -> "ssse3"
      [] ~c.avx2 /\ ~c.avx /\ ~c.ssse3 /\ c.armSha -> "armSha"
      [] OTHER -> "generic"

\* Block(h, p): the dispatcher on a raw state.
Block(c, h, p) == compress(dispatchDirect(c), h, p)

\* What a call of the backend through Block is recorded as.
CallDirect(c, p) == [variant |-> dispatchDirect(c), run |-> p]

\* block(dig, p): the dispatcher on a digest; returns the digest after the call.
block(c, dig, p) == [dig EXCEPT !.h = compress(dispatch(c), dig.h, p)]

\* What a call of the backend is recorded as.
Call(c, p) == [variant |-> dispatch(c), run |-> p]

(***************************************************************************)
(* The digest                                                              *)
(***************************************************************************)
IV == <<Init0, Init1, Init2, Init3, Init4, Init5, Init6, Init7>>

\* The zero value of the struct: var d digest
ZeroDigest ==
    [h |-> [iv |-> [i \in 1..8 |-> <<0, 0>>], blocks |-> <<>>],
     x |-> Zeros(chunk), nx |-> 0, len |-> 0]

\* Reset that leaves the buffered count as it is.
ResetKeepsCount(dig) == [dig EXCEPT !.h = [iv |-> IV, blocks |-> <<>>], !.len = 0]

\* Reset that sets the counters only, not h.
ResetCounters(dig) == [dig EXCEPT !.nx = 0, !.len = 0]

\* Reset leaves x as it is.
Reset(dig) ==
    [dig EXCEPT !.h = [iv |-> IV, blocks |-> <<>>], !.nx = 0, !.len = 0]

\* CopyInto with the offset forgotten: copy(d.x[:], src).
CopyIntoStart(x, at, src) ==
    [i \in 1..chunk |-> IF i <= Min(chunk, Len(src)) THEN src[i] ELSE x[i]]

\* copy(d.x[at:], src): the buffer after the copy.  copy moves
\* min(len(dst), len(src)) bytes.
CopyInto(x, at, src) ==
    [i \in 1..chunk |->
        IF i > at /\ i <= at + Min(chunk - at, Len(src)) THEN src[i - at] ELSE x[i]]

\* AddLen as an assignment: d.len = uint64(nn).
AddLenAssign(len, nn) == nn

\* d.len += uint64(nn)   (the model's lengths stay far below 2^64)
AddLen(len, nn) == len + nn

\* Flush without the reset of the count.
FlushKeepsCount(c, dig) == block(c, dig, dig.x)

\* block(d, d.x[:]); d.nx = 0
Flush(c, dig) == [block(c, dig, dig.x) EXCEPT !.nx = 0]

\* DirectLen without the mask: the whole rest is handed to the backend.
DirectLenWhole(n) == n

\* n := len(p) &^ (chunk - 1)
DirectLen(n) == n - (n % chunk)

\* Write's working state: [d: the digest, p: the rest of the input,
\* calls: the backend calls made so far, in order].
\* nn = len(p); d.len += uint64(nn)
Enter(dig, p) ==
    [d |-> [dig EXCEPT !.len = AddLen(@, Len(p))], p |-> p, calls |-> <<>>]

\* n := copy(d.x[d.nx:], p); d.nx += n
Copied(s) ==
    [s.d EXCEPT !.x = CopyInto(@, s.d.nx, s.p),
                !.nx = @ + Min(chunk - s.d.nx, Len(s.p))]

\* if d.nx == chunk { block(d, d.x[:]); d.nx = 0 }; p = p[n:]
\* where dc is the digest after the copy.
Filled(c, s, dc) ==
    [d |-> IF dc.nx = chunk THEN Flush(c, dc) ELSE dc,
     p |-> Drop(s.p, Min(chunk - s.d.nx, Len(s.p))),
     calls |-> IF dc.nx = chunk THEN s.calls \o <<Call(c, dc.x)>> ELSE s.calls]

\* if d.nx > 0 { ... }
FillBuffer(c, s) == IF s.d.nx > 0 THEN Filled(c, s, Copied(s)) ELSE s

\* block(d, p[:n]); p = p[n:]
DirectRun(c, s, n) ==
    [d |-> block(c, s.d, Take(s.p, n)),
     p |-> Drop(s.p, n),
     calls |-> s.calls \o <<Call(c, Take(s.p, n))>>]

\* Direct without its guard: the backend is called also with an empty run.
DirectUnguarded(c, s) == DirectRun(c, s, DirectLen(Len(s.p)))

\* if len(p) >= chunk { n := len(p) &^ (chunk - 1); ... }
Direct(c, s) ==
    IF Len(s.p) >= chunk THEN DirectRun(c, s, DirectLen(Len(s.p))) ELSE s

\* if len(p) > 0 { d.nx = copy(d.x[:], p) }
Buffer(s) ==
    IF Len(s.p) > 0
    THEN [s EXCEPT !.d.x = CopyInto(@, 0, s.p), !.d.nx = Min(chunk, Len(s.p))]
    ELSE s

\* The effect of Write(p) on the digest: the three steps in order.
WriteState(c, dig, p) == Buffer(Direct(c, FillBuffer(c, Enter(dig, p))))

\* What Write returns with the effect w: nn = len(p) is set on entry and err
\* is never assigned.
Returns(w, nn) == [d |-> w.d, nn |-> nn, err |-> "nil", calls |-> w.calls]

\* Write taking nn = len(p) on exit, when p is what is left of the input.
LenAtExit(w) == Returns(w, Len(w.p))
WriteLenAtExit(c, dig, p) == LenAtExit(WriteState(c, dig, p))

\* Write(p): [d: the digest after, nn, err, calls]
Write(c, dig, p) == Returns(WriteState(c, dig, p), Len(p))

\* v >> s for a value below 2^31 (the model's lengths stay far below it).
Shr(v, s) == IF s >= 31 THEN 0 ELSE v \div (2 ^ s)

\* byte(v): the low 8 bits
byte(v) == v % 256

\* PadLen one byte short.
PadLenShort(len) == IF len % 64 < 56 THEN 55 - (len % 64) ELSE 64 + 55 - (len % 64)

\* PadLen with the boundary one residue late (len%64 <= 56).
PadLenLate(len) == IF len % 64 <= 56 THEN 56 - (len % 64) ELSE 64 + 56 - (len % 64)

\* The number of padding bytes (0x80, then zeros) checkSum writes first.
PadLen(len) == IF len % 64 < 56 THEN 56 - (len % 64) ELSE 64 + 56 - (len % 64)

\* var tmp [64]byte; tmp[0] = 0x80
PadBytes == [i \in 1..64 |-> IF i = 1 THEN 128 ELSE 0]

\* tmp[i] = byte(len >> (56 - 8*i)) for i < 8, after len <<= 3; then tmp[0:8]
LenBytes(len) == [i \in 1..8 |-> byte(Shr(len * 8, 56 - 8 * (i - 1)))]

\* The layout with each word's least significant byte first.
checkSumLayoutLittle ==
    [j \in 1..Size |-> <<(j - 1) \div 4, 8 * ((j - 1) % 4)>>]

\* The 32-byte digest as checkSum lays it out: byte j - 1 of the result is
\* byte(h[word] >> shift), written <<word, shift>>.
checkSumLayout ==
    [j \in 1..Size |->
        LET i == (j - 1) \div 4
            k == (j - 1) % 4
        IN <<i, CASE k = 0 -> 24 [] k = 1 -> 16 [] k = 2 -> 8 [] OTHER -> 0>>]

\* The first Write of checkSum: d.Write(tmp[0 : PadLen]).
PadWrite(c, dig) == Write(c, dig, Take(PadBytes, PadLen(dig.len)))

\* The second Write of checkSum, d.Write(tmp[0:8]), after the Write w1; len is
\* the length taken on entry.
LenWrite(c, w1, len) ==
    [Write(c, w1.d, LenBytes(len)) EXCEPT !.calls = w1.calls \o @]

\* if d.nx != 0 { panic("d.nx != 0") }, then the serialization of d.h.
Finish(w) ==
    [d |-> w.d,
     calls |-> w.calls,
     panic |-> w.d.nx # 0,
     digest |-> [h |-> w.d.h, bytes |-> checkSumLayout]]

\* checkSum reading the length after the padding was written.
checkSumLenAfterPad(c, dig) ==
    Finish(LenWrite(c, PadWrite(c, dig), PadWrite(c, dig).d.len))

\* checkSum: [d: the digest it ran on, after; panic: whether it panicked;
\* digest: the value returned; calls: the backend calls made]
checkSum(c, dig) == Finish(LenWrite(c, PadWrite(c, dig), dig.len))

\* return append(in, hash[:]...), with the receiver as the call leaves it:
\* [d: the receiver after the call, d0: the copy after the call, panic, out, calls]
SumResult(dig, in, r) ==
    [d |-> dig, d0 |-> r.d, panic |-> r.panic,
     out |-> [prefix |-> in, digest |-> r.digest], calls |-> r.calls]

\* Sum running checkSum on the receiver itself (d0 := d).
OnReceiver(r) == [r EXCEPT !.d = r.d0]
SumOnReceiver(c, dig, in) == OnReceiver(SumResult(dig, in, checkSum(c, dig)))

\* Sum on a copy that shares the buffer x with the receiver.
SharedBuffer(r) == [r EXCEPT !.d.x = r.d0.x]
SumSharedBuffer(c, dig, in) == SharedBuffer(SumResult(dig, in, checkSum(c, dig)))

\* Sum(in): d0 := *d copies the struct, arrays included; checkSum runs on d0.
Sum(c, dig, in) == SumResult(dig, in, checkSum(c, dig))

\* checkSum after the Write w of Sum256.
Sum256After(c, w) == [checkSum(c, w.d) EXCEPT !.calls = w.calls \o @]

\* Sum256(data): var d digest; d.Reset(); d.Write(data); return d.checkSum()
\* [d, panic, digest, calls]
Sum256(c, data) == Sum256After(c, Write(c, Reset(ZeroDigest), data))

\* Int2Bytes with the little-endian byte order.
Int2BytesLittle(h) ==
    [h |-> h, bytes |-> [j \in 1..Size |-> <<(j - 1) \div 4, 8 * ((j - 1) % 4)>>]]

\* Int2Bytes(h, digest): binary.BigEndian.PutUint32(digest[i<<2:], s) puts
\* byte(s >> 24), byte(s >> 16), byte(s >> 8), byte(s) at i<<2 .. i<<2 + 3.
Int2Bytes(h) ==
    [h |-> h,
     bytes |-> [j \in 1..Size |-> <<(j - 1) \div 4, 8 * (3 - ((j - 1) % 4))>>]]

\* Sum256D32(data): there is no length check and no error result; copy takes
\* min(64, len(data)) bytes, then bytes 32 and 62 are overwritten.
Sum256D32(c, data) ==
    LET stat == [iv |-> IV, blocks |-> <<>>]
        buf0 == CopyInto(Zeros(64), 0, data)
        buf == [buf0 EXCEPT ![33] = 128, ![63] = 1]
        stat1 == Block(c, stat, buf)
    IN [panic |-> FALSE, digest |-> Int2Bytes(stat1), calls |-> <<CallDirect(c, buf)>>]

(***************************************************************************)
(* The state machine: one digest instance driven by a caller               *)
(***************************************************************************)
\* New testing the x86 flags only.
NewX86Only(c) ==
    IF c.avx2 \/ c.avx \/ c.ssse3
    THEN [kind |-> "digest", d |-> Reset(ZeroDigest)]
    ELSE [kind |-> "stdlib"]

\* New(): a digest, Reset, when a flag is set; the standard library's hash
\* otherwise.
New(c) ==
    IF c.avx2 \/ c.avx \/ c.ssse3 \/ c.armSha
    THEN [kind |-> "digest", d |-> Reset(ZeroDigest)]
    ELSE [kind |-> "stdlib"]

Init ==
    /\ caps \in CapConfigs
    /\ New(caps).kind = "digest"
    /\ d = New(caps).d
    /\ m = <<>>
    /\ nops = 0
    /\ fed = <<>>
    /\ taken = <<>>
    /\ op = "New"
    /\ ret = [kind |-> "none"]
    /\ procs = <<>>

DoReset ==
    /\ nops < MaxOps
    /\ nops' = nops + 1
    /\ d' = Reset(d)
    /\ m' = <<>>
    /\ fed' = <<>>
    /\ op' = "Reset"
    /\ ret' = [kind |-> "none"]
    /\ UNCHANGED <<caps, taken, procs>>

DoWrite ==
    /\ nops < MaxOps
    /\ \E p \in {q \in Inputs : Len(m) + Len(q) <= MaxTotal} :
       \E w \in {Write(caps, d, p)} :
           /\ nops' = nops + 1
           /\ d' = w.d
           /\ m' = m \o p
           /\ fed' = fed \o w.calls
           /\ op' = "Write"
           /\ ret' = [kind |-> "write", nn |-> w.nn, err |-> w.err, p |-> p]
           /\ UNCHANGED <<caps, taken, procs>>

DoSum ==
    /\ nops < MaxOps
    /\ \E in \in Prefixes : \E r \in {Sum(caps, d, in)} :
           /\ nops' = nops + 1
           /\ d' = r.d
           /\ taken' = IF r.panic THEN taken
                        ELSE Append(taken, [msg |-> m, out |-> r.out])
           /\ op' = "Sum"
           /\ ret' = IF r.panic THEN [kind |-> "panic"]
                     ELSE [kind |-> "sum", in |-> in, out |-> r.out, copy |-> r.d0]
           /\ UNCHANGED <<caps, m, fed, procs>>

Next == DoReset \/ DoWrite \/ DoSum

Spec == Init /\ [][Next]_vars

(***************************************************************************)
(* Finalization over every total length: the first Write after Reset has   *)
(* any length up to MaxTotal.                                              *)
(***************************************************************************)
DoWriteAny ==
    /\ nops < MaxOps
    /\ d.len = 0
    /\ \E n \in 0..MaxTotal : \E p \in {Data(n, 1)} : \E w \in {Write(caps, d, p)} :
           /\ nops' = nops + 1
           /\ d' = w.d
           /\ m' = m \o p
           /\ fed' = fed \o w.calls
           /\ op' = "Write"
           /\ ret' = [kind |-> "write", nn |-> w.nn, err |-> w.err, p |-> p]
           /\ UNCHANGED <<caps, taken, procs>>

NextLen == DoWriteAny \/ DoSum

SpecLen == Init /\ [][NextLen]_vars

(***************************************************************************)
(* The one-shot helpers as pure functions of their input                   *)
(***************************************************************************)
FastLens == {0, 1, 31, 32, 33, 64, 65}
FastSeeds == {0, 1, 3, 128, 255}
\* The three bytes "abc".
Abc == <<97, 98, 99>>
FastInputs == {Data(n, s) : n \in FastLens, s \in FastSeeds} \cup {Abc}

Outcome(r) == IF r.panic THEN "panic" ELSE "value"

InitFast ==
    /\ caps \in Flags
    /\ d = Reset(ZeroDigest)
    /\ m = <<>>
    /\ nops = 0
    /\ fed = <<>>
    /\ taken = <<>>
    /\ op = "New"
    /\ ret = [kind |-> "none"]
    /\ procs = <<>>

DoSum256 ==
    \E data \in FastInputs : \E r \in {Sum256(caps, data)} :
           /\ op' = "Sum256"
           /\ ret' = [kind |-> Outcome(r), data |-> data, out |-> r.digest,
                       calls |-> r.calls]
           /\ UNCHANGED <<caps, d, m, nops, fed, taken, procs>>

DoSum256D32 ==
    \E data \in FastInputs : \E r \in {Sum256D32(caps, data)} :
           /\ op' = "Sum256D32"
           /\ ret' = [kind |-> Outcome(r), data |-> data, out |-> r.digest,
                       calls |-> r.calls]
           /\ UNCHANGED <<caps, d, m, nops, fed, taken, procs>>

\* New() called under the configuration; ret is what it returns.
DoNew ==
    /\ op' = "New"
    /\ ret' = New(caps)
    /\ UNCHANGED <<caps, d, m, nops, fed, taken, procs>>

NextFast == DoSum256 \/ DoSum256D32 \/ DoNew

SpecFast == InitFast /\ [][NextFast]_vars

(***************************************************************************)
(* Two instances, each operated by its own process                         *)
(***************************************************************************)
\* The processes; process i owns instance i and writes inputs of seed i.
Procs == {1, 2}

\* Lengths process i passes to Write: one short of a block, one more.
TwoLens == {63, 65}

\* A process at rest on the instance dig after writing msg and taking outs:
\* [d: its instance, m: bytes written since Reset, pc: where it stands,
\*  p: the rest of the input of the Write it is in, d0 and len: the locals of
\*  the Sum it is in, out: what its Sums returned]
Idle(dig, msg, outs) ==
    [d |-> dig, m |-> msg, pc |-> "idle", p |-> <<>>,
     d0 |-> ZeroDigest, len |-> 0, out |-> outs]

\* The buffer as package-level state: every instance's x is the same array.
Shared(ps, i, r) ==
    [j \in DOMAIN ps |-> IF j = i THEN r ELSE [ps[j] EXCEPT !.d.x = r.d.x]]

\* A step of process i leaves r in its own memory: h, x, nx and len are
\* fields of the instance, x an array held by value.
Own(ps, i, r) == [ps EXCEPT ![i] = r]

InitTwo ==
    /\ caps \in CapConfigs
    /\ New(caps).kind = "digest"
    /\ d = New(caps).d
    /\ m = <<>>
    /\ nops = 0
    /\ fed = <<>>
    /\ taken = <<>>
    /\ op = "New"
    /\ ret = [kind |-> "none"]
    /\ procs = [i \in Procs |-> Idle(New(caps).d, <<>>, <<>>)]

\* Process i calls Reset.
TwoReset(i) ==
    /\ nops < MaxOps
    /\ procs[i].pc = "idle"
    /\ nops' = nops + 1
    /\ procs' = Own(procs, i, Idle(Reset(procs[i].d), <<>>, procs[i].out))
    /\ UNCHANGED <<caps, d, m, fed, taken, op, ret>>

\* Process i enters Write(p): nn = len(p); d.len += uint64(nn)
TwoEnter(i) ==
    /\ nops < MaxOps
    /\ procs[i].pc = "idle"
    /\ \E n \in {k \in TwoLens : Len(procs[i].m) + k <= MaxTotal} :
       \E s \in {Enter(procs[i].d, Data(n, i))} :
           /\ nops' = nops + 1
           /\ procs' = Own(procs, i, [procs[i] EXCEPT !.d = s.d, !.p = s.p,
                                                      !.m = @ \o s.p, !.pc = "fill"])
    /\ UNCHANGED <<caps, d, m, fed, taken, op, ret>>

\* Process i, in Write: if d.nx > 0 { ... }
TwoFill(i) ==
    /\ procs[i].pc = "fill"
    /\ \E s \in {FillBuffer(caps, [d |-> procs[i].d, p |-> procs[i].p, calls |-> <<>>])} :
           procs' = Own(procs, i, [procs[i] EXCEPT !.d = s.d, !.p = s.p, !.pc = "direct"])
    /\ UNCHANGED <<caps, d, m, nops, fed, taken, op, ret>>

\* Process i, in Write: if len(p) >= chunk { ... }
TwoDirect(i) ==
    /\ procs[i].pc = "direct"
    /\ \E s \in {Direct(caps, [d |-> procs[i].d, p |-> procs[i].p, calls |-> <<>>])} :
           procs' = Own(procs, i, [procs[i] EXCEPT !.d = s.d, !.p = s.p, !.pc = "buffer"])
    /\ UNCHANGED <<caps, d, m, nops, fed, taken, op, ret>>

\* Process i, in Write: if len(p) > 0 { ... }; return
TwoBuffer(i) ==
    /\ procs[i].pc = "buffer"
    /\ \E s \in {Buffer([d |-> procs[i].d, p |-> procs[i].p, calls |-> <<>>])} :
           procs' = Own(procs, i, Idle(s.d, procs[i].m, procs[i].out))
    /\ UNCHANGED <<caps, d, m, nops, fed, taken, op, ret>>

\* Process i enters Sum: d0 := *d, and in checkSum, len := d.len
TwoCopy(i) ==
    /\ nops < MaxOps
    /\ procs[i].pc = "idle"
    /\ nops' = nops + 1
    /\ procs' = Own(procs, i, [procs[i] EXCEPT !.d0 = procs[i].d,
                                               !.len = procs[i].d.len, !.pc = "pad"])
    /\ UNCHANGED <<caps, d, m, fed, taken, op, ret>>

\* Process i, in checkSum: the Write of the padding on d0.
TwoPad(i) ==
    /\ procs[i].pc = "pad"
    /\ \E w \in {PadWrite(caps, procs[i].d0)} :
           procs' = Own(procs, i, [procs[i] EXCEPT !.d0 = w.d, !.pc = "length"])
    /\ UNCHANGED <<caps, d, m, nops, fed, taken, op, ret>>

\* Process i, in checkSum: the Write of the length on d0, the serialization,
\* and the return of Sum.
TwoLength(i) ==
    /\ procs[i].pc = "length"
    /\ \E r \in {Finish(LenWrite(caps, [d |-> procs[i].d0, calls |-> <<>>], procs[i].len))} :
           procs' = Own(procs, i,
                        Idle(procs[i].d, procs[i].m,
                             IF r.panic THEN procs[i].out
                             ELSE Append(procs[i].out, [msg |-> procs[i].m, digest |-> r.digest])))
    /\ UNCHANGED <<caps, d, m, nops, fed, taken, op, ret>>

NextTwo ==
    \E i \in Procs :
        \/ TwoReset(i)
        \/ TwoEnter(i)
        \/ TwoFill(i)
        \/ TwoDirect(i)
        \/ TwoBuffer(i)
        \/ TwoCopy(i)
        \/ TwoPad(i)
        \/ TwoLength(i)

SpecTwo == InitTwo /\ [][NextTwo]_vars

(***************************************************************************)
(* The compression function of SHA-256 (FIPS 180-4), which every kernel    *)
(* computes: the value of a hash state [iv, blocks], in 32-bit words       *)
(* written <<high 16 bits, low 16 bits>>.                                  *)
(***************************************************************************)
K256 ==
  <<<<17034, 12184>>, <<28983, 17553>>, <<46528, 64463>>, <<59829, 56229>>,
     <<14678, 49755>>, <<23025, 4593>>, <<37439, 33444>>, <<43804, 24277>>,
     <<55303, 43672>>, <<4739, 23297>>, <<9265, 34238>>, <<21772, 32195>>,
     <<29374, 23924>>, <<32990, 45566>>, <<39900, 1703>>, <<49563, 61812>>,
     <<58523, 27073>>, <<61374, 18310>>, <<4033, 40390>>, <<9228, 41420>>,
     <<11753, 11375>>, <<19060, 33962>>, <<23728, 43484>>, <<30457, 35034>>,
     <<38974, 20818>>, <<43057, 50797>>, <<45059, 10184>>, <<48985, 32711>>,
     <<50912, 3059>>, <<54695, 37191>>, <<1738, 25425>>, <<5161, 10599>>,
     <<10167, 2693>>, <<11803, 8504>>, <<19756, 28156>>, <<21304, 3347>>,
     <<25866, 29524>>, <<30314, 2747>>, <<33218, 51502>>, <<37490, 11397>>,
     <<41663, 59553>>, <<43034, 26187>>, <<49739, 35696>>, <<51052, 20899>>,
     <<53650, 59417>>, <<54937, 1572>>, <<62478, 13701>>, <<4202, 41072>>,
     <<6564, 49430>>, <<7735, 27656>>, <<10056, 30540>>, <<13488, 48309>>,
     <<14620, 3251>>, <<20184, 43594>>, <<23452, 51791>>, <<26670, 28659>>,
     <<29839, 33518>>, <<30885, 25455>>, <<33992, 30740>>, <<36039, 520>>,
     <<37054, 65530>>, <<42064, 27883>>, <<48889, 41975>>, <<50801, 30962>>>>

\* a & b on n-bit values
RECURSIVE And(_, _, _)
And(a, b, n) ==
    IF n = 0 THEN 0 ELSE ((a % 2) * (b % 2)) + 2 * And(a \div 2, b \div 2, n - 1)

\* a ^ b on 16-bit values
Xor16(a, b) == a + b - 2 * And(a, b, 16)

\* a + b mod 2^32, a ^ b, a & b, ^a
WAdd(a, b) ==
    <<(a[1] + b[1] + ((a[2] + b[2]) \div 65536)) % 65536, (a[2] + b[2]) % 65536>>
WXor(a, b) == <<Xor16(a[1], b[1]), Xor16(a[2], b[2])>>
WAnd(a, b) == <<And(a[1], b[1], 16), And(a[2], b[2], 16)>>
WNot(a) == <<65535 - a[1], 65535 - a[2]>>

\* a rotated right by n < 16, and by any n < 32
RotSmall(a, n) ==
    <<(a[1] \div (2 ^ n)) + (a[2] % (2 ^ n)) * (2 ^ (16 - n)),
      (a[2] \div (2 ^ n)) + (a[1] % (2 ^ n)) * (2 ^ (16 - n))>>
Rotr(a, n) == IF n < 16 THEN RotSmall(a, n) ELSE RotSmall(<<a[2], a[1]>>, n - 16)

\* a >> n for n < 16
WShr(a, n) ==
    <<a[1] \div (2 ^ n), (a[2] \div (2 ^ n)) + (a[1] % (2 ^ n)) * (2 ^ (16 - n))>>

BigSigma0(a) == WXor(WXor(Rotr(a, 2), Rotr(a, 13)), Rotr(a, 22))
BigSigma1(e) == WXor(WXor(Rotr(e, 6), Rotr(e, 11)), Rotr(e, 25))
SmallSigma0(w) == WXor(WXor(Rotr(w, 7), Rotr(w, 18)), WShr(w, 3))
SmallSigma1(w) == WXor(WXor(Rotr(w, 17), Rotr(w, 19)), WShr(w, 10))
ChFn(e, f, g) == WXor(WAnd(e, f), WAnd(WNot(e), g))
MajFn(a, b, c) == WXor(WXor(WAnd(a, b), WAnd(a, c)), WAnd(b, c))

\* The 16 big-endian words of a block.
BlockWords(b) ==
    [t \in 1..16 |-> <<b[4 * t - 3] * 256 + b[4 * t - 2], b[4 * t - 1] * 256 + b[4 * t]>>]

\* The message schedule: w extended to 64 words.
RECURSIVE Schedule(_)
Schedule(w) ==
    IF Len(w) = 64 THEN w
    ELSE Schedule(Append(w,
             WAdd(WAdd(SmallSigma1(w[Len(w) - 1]), w[Len(w) - 6]),
                  WAdd(SmallSigma0(w[Len(w) - 14]), w[Len(w) - 15]))))

\* One round on [v: the working variables a..h, t: the round to do next].
Round(s, t1, t2) ==
    [v |-> <<WAdd(t1, t2), s.v[1], s.v[2], s.v[3],
             WAdd(s.v[4], t1), s.v[5], s.v[6], s.v[7]>>,
     t |-> s.t + 1]

RECURSIVE Rounds(_, _)
Rounds(s, w) ==
    IF s.t > 64 THEN s.v
    ELSE Rounds(Round(s,
                      WAdd(WAdd(WAdd(s.v[8], BigSigma1(s.v[5])),
                                ChFn(s.v[5], s.v[6], s.v[7])),
                           WAdd(K256[s.t], w[s.t])),
                      WAdd(BigSigma0(s.v[1]), MajFn(s.v[1], s.v[2], s.v[3]))),
                w)

\* The hash words after compressing the block b from the words hw.
AddWords(hw, r) == [i \in 1..8 |-> WAdd(hw[i], r[i])]
Sha256Block(hw, b) ==
    AddWords(hw, Rounds([v |-> hw, t |-> 1], Schedule(BlockWords(b))))

RECURSIVE Sha256Blocks(_, _)
Sha256Blocks(hw, blocks) ==
    IF blocks = <<>> THEN hw
    ELSE Sha256Blocks(Sha256Block(hw, Head(blocks)), Tail(blocks))

\* The eight words of the hash state h.
Words(h) == Sha256Blocks(h.iv, h.blocks)

\* byte(w >> shift) for shift in 24, 16, 8, 0
WordByte(w, shift) ==
    CASE shift = 24 -> w[1] \div 256
      [] shift = 16 -> w[1] % 256
      [] shift = 8 -> w[2] \div 256
      [] OTHER -> w[2] % 256

\* The bytes of a digest: entry <<word, shift>> of its layout taken from the
\* words hw.
LaidOut(bytes, hw) ==
    [j \in 1..Len(bytes) |-> WordByte(hw[bytes[j][1] + 1], bytes[j][2])]
DigestBytes(dg) == LaidOut(dg.bytes, Words(dg.h))

\* A byte sequence in hexadecimal, one digit per entry.
Hex(bs) ==
    [k \in 1..(2 * Len(bs)) |->
        IF k % 2 = 1 THEN bs[(k + 1) \div 2] \div 16 ELSE bs[k \div 2] % 16]

(***************************************************************************)
(* Properties                                                              *)
(***************************************************************************)
\* The digest finalization would return for the instance as it stands.
Final == checkSum(caps, d)

\* The hash state that chaining the backend over the recorded calls gives.
RECURSIVE Chain(_, _)
Chain(h, calls) ==
    IF calls = <<>> THEN h
    ELSE Chain(compress(Head(calls).variant, h, Head(calls).run), Tail(calls))

Runs == [i \in 1..Len(fed) |-> fed[i].run]

\* C1: chunking invariance.  However the bytes m written since Reset were
\* split into Write calls (empty chunks, chunks straddling a block boundary,
\* runs handed directly to the backend), finalizing the instance gives the
\* digest of a fresh instance given m in a single Write.
C1_ChunkingInvariance ==
    /\ ~Final.panic
    /\ Final.digest = Sum256(caps, m).digest

\* C1 witness: 63 bytes were buffered, then a 65-byte Write filled the buffer
\* with its first byte and handed its other 64 bytes directly to the backend.
C1_Witness ==
    /\ op = "Write" /\ Len(ret.p) = 65 /\ Len(m) = 128
    /\ Len(fed) = 2 /\ d.nx = 0
    /\ Final.digest = Sum256(caps, m).digest

\* C2: non-destructiveness.  Every value Sum returned, also one taken after
\* earlier Sums and further Writes, is the digest of a single stream over all
\* the bytes written up to that Sum.
C2_NonDestructive ==
    \A i \in 1..Len(taken) :
        taken[i].out.digest = Sum256(caps, taken[i].msg).digest

\* C2 witness: write a, Sum, write b, Sum, with a and b not empty.
C2_Witness ==
    /\ op = "Sum" /\ nops = 4 /\ Len(taken) = 2
    /\ taken[1].msg # <<>>
    /\ Len(taken[2].msg) > Len(taken[1].msg)
    /\ taken[2].msg = m
    /\ taken[2].out.digest = Sum256(caps, m).digest

\* C3: Sum works on an independent copy.  A Sum step leaves h, x, nx and len
\* of the instance unchanged although the copy it finalizes is written to and
\* compressed, and no later step changes a value Sum has returned.
C3_SumIndependentCopy ==
    [][/\ (op' = "Sum" => d' = d)
       /\ (op' = "Sum" /\ ret'.kind = "sum" =>
              /\ ret'.copy.len > d'.len
              /\ ret'.copy.h # d'.h)
       /\ \A i \in 1..Len(taken) :
              Len(taken') >= i /\ taken'[i] = taken[i]]_vars

\* C3 witness: Sum was called with bytes in the buffer, its copy compressed
\* two more blocks and overwrote the start of its buffer, and a Write to the
\* original followed.
C3_Witness ==
    /\ op = "Write" /\ Len(taken) = 1
    /\ Len(taken[1].msg) = 63
    /\ Len(m) > 63
    /\ Len(taken[1].out.digest.h.blocks) = 2

\* C4: fast-path equivalence.  For a 32-byte input Sum256D32 returns what
\* Sum256 returns: one block compressed from the IV, the same block, in the
\* same byte layout.
C4_FastPathEquivalence ==
    (op = "Sum256D32" /\ Len(ret.data) = 32) =>
        /\ ret.kind = "value"
        /\ Len(ret.out.h.blocks) = 1
        /\ ret.out = Sum256(caps, ret.data).digest

\* C4 witness: Sum256D32 was applied to a 32-byte input that is not all zero.
C4_Witness ==
    /\ op = "Sum256D32" /\ Len(ret.data) = 32 /\ ret.data[32] = 96
    /\ ret.out = Sum256(caps, ret.data).digest

\* C5: Sum256D32 given an input whose length is not 32 surfaces an error
\* instead of returning a digest value.
C5_D32RejectsBadLength ==
    (op = "Sum256D32" /\ Len(ret.data) # 32) => ret.kind # "value"

\* C6: the buffered count stays in 0..63 after Reset and after every Write,
\* the Writes of the padding included; a buffer that fills up is compressed
\* and its count set back to 0 in the same Write.
C6_BufferedCount ==
    /\ d.nx \in 0..(chunk - 1)
    /\ PadWrite(caps, d).d.nx \in 0..(chunk - 1)
    /\ Final.d.nx \in 0..(chunk - 1)
    /\ (op = "Write" /\ Len(m) % chunk = 0) => d.nx = 0

\* C6 witness: a 1-byte Write completed the 63 buffered bytes to a block.
C6_Witness ==
    /\ op = "Write" /\ Len(ret.p) = 1 /\ Len(m) = 64
    /\ d.nx = 0 /\ Len(fed) = 1 /\ fed[1].run = m

\* C7: data conservation.  The runs handed to the backend, in order, followed
\* by x[0:nx] are the bytes written, and h is the chain of the backend over
\* those runs from the IV.
C7_DataConservation ==
    /\ Flatten(Runs) \o Take(d.x, d.nx) = m
    /\ d.h = Chain([iv |-> IV, blocks |-> <<>>], fed)

\* C7 witness: two runs were compressed and one byte is buffered.
C7_Witness ==
    /\ Len(fed) = 2 /\ d.nx = 1 /\ Len(m) = 129
    /\ Flatten(Runs) = Take(m, 128)
    /\ d.x[1] = m[129]

\* C8: length accounting.  len is the number of bytes the caller has passed
\* to Write since Reset, also after Sum has written its padding to the copy,
\* and nx is len mod 64.
C8_LengthAccounting ==
    /\ d.len = Len(m)
    /\ d.nx = d.len % chunk

\* C8 witness: Sum was called after 65 bytes; its copy counted the padding,
\* the instance did not.
C8_Witness ==
    /\ op = "Sum" /\ ret.kind = "sum"
    /\ d.len = 65 /\ d.nx = 1
    /\ ret.copy.len = 128

\* C9: Write returns nn = len(p) and a nil error for every input.
C9_WriteNeverFails ==
    op = "Write" => (ret.nn = Len(ret.p) /\ ret.err = "nil")

\* C9 witness: a 65-byte Write on a buffer holding one byte, and so a Write
\* that copies, compresses and buffers, has returned 65.
C9_Witness ==
    /\ op = "Write" /\ Len(ret.p) = 65 /\ ret.nn = 65
    /\ d.nx = 2 /\ Len(m) = 66

\* C10: finalization ends block-aligned.  For every total length written,
\* nx is 0 after checkSum has written the padding and the length, so the
\* panic "d.nx != 0" is not reached.
C10_FinalAligned ==
    /\ ~Final.panic
    /\ Final.d.nx = 0
    /\ ret.kind # "panic"
    /\ Final.d.len % chunk = 0

\* C10 witness: Sum after a total of 56 mod 64 bytes, where the padding takes
\* two blocks.
C10_Witness ==
    /\ op = "Sum" /\ ret.kind = "sum"
    /\ d.len % chunk = 56 /\ d.len > chunk
    /\ ret.copy.nx = 0
    /\ Len(ret.copy.h.blocks) = Len(d.h.blocks) + 2

\* The 8-byte big-endian encoding of v, for v below 2^24.
BigEndian8(v) ==
    [i \in 1..8 |-> IF i <= 5 THEN 0 ELSE (v \div (256 ^ (8 - i))) % 256]

\* The blocks finalization compresses beyond those the instance has compressed.
FinalBlocks == SubSeq(Final.d.h.blocks, Len(d.h.blocks) + 1, Len(Final.d.h.blocks))

\* C11: exact-multiple padding.  Finalization compresses exactly one further
\* block when len mod 64 < 56 and exactly two when len mod 64 >= 56; after
\* a multiple of 64 bytes (0 included) the one block is padding only: 0x80,
\* 55 zeros and the 8 bytes of the bit length.
C11_PaddingBlocks ==
    /\ Take(Final.d.h.blocks, Len(d.h.blocks)) = d.h.blocks
    /\ Len(FinalBlocks) = IF d.len % chunk < 56 THEN 1 ELSE 2
    /\ d.len % chunk = 0 =>
          /\ Take(FinalBlocks[1], 56) = [i \in 1..56 |-> IF i = 1 THEN 128 ELSE 0]
          /\ Drop(FinalBlocks[1], 56) = BigEndian8(8 * d.len)

\* C11 witness: Sum after exactly 128 bytes; the copy compressed one block more
\* than the two of the message.
C11_Witness ==
    /\ op = "Sum" /\ ret.kind = "sum"
    /\ d.len = 128 /\ d.nx = 0
    /\ Len(d.h.blocks) = 2
    /\ Len(ret.copy.h.blocks) = 3
    /\ ret.copy.h.blocks[3][1] = 128

\* The flags in the order of priority, and the backend each selects.
Priority == <<"avx2", "avx", "ssse3", "armSha">>

FlagSet(c, i) ==
    CASE i = 1 -> c.avx2 [] i = 2 -> c.avx [] i = 3 -> c.ssse3 [] OTHER -> c.armSha

\* The backend of the first flag set in the order of priority, generic if none.
Selected(c) ==
    IF \E i \in 1..4 : FlagSet(c, i)
    THEN Priority[CHOOSE i \in 1..4 :
                     FlagSet(c, i) /\ \A j \in 1..(i - 1) : ~FlagSet(c, j)]
    ELSE "generic"

\* C12: backend dispatch.  Every call of the backend goes to the variant of
\* the first flag set in the order avx2, avx, ssse3, armSha, and to generic
\* exactly when no flag is set; Block and block select the same variant; all
\* the calls of one computation go to the same variant.
C12_Dispatch ==
    /\ dispatch(caps) = Selected(caps)
    /\ dispatchDirect(caps) = dispatch(caps)
    /\ (dispatch(caps) = "generic") <=> (\A i \in 1..4 : ~FlagSet(caps, i))
    /\ op \in {"Sum256", "Sum256D32"} =>
          /\ ret.calls # <<>>
          /\ \A i \in 1..Len(ret.calls) : ret.calls[i].variant = Selected(caps)

\* C12 witness: with avx, ssse3 and armSha set together and avx2 clear, a
\* Sum256 over 65 bytes made two calls of the backend, both to the avx variant.
C12_Witness ==
    /\ op = "Sum256" /\ Len(ret.data) = 65
    /\ ~caps.avx2 /\ caps.avx /\ caps.ssse3 /\ caps.armSha
    /\ Len(ret.calls) = 2
    /\ \A i \in 1..Len(ret.calls) : ret.calls[i].variant = "avx"

\* C13: the platform fallback.  New returns the package's digest, Reset,
\* exactly when a flag is set, that is when the dispatcher would select an
\* accelerated backend, and the standard library's hash exactly when none is.
C13_NewFallback ==
    ret.kind \in {"digest", "stdlib"} =>
        /\ (ret.kind = "digest") <=> (caps.avx2 \/ caps.avx \/ caps.ssse3 \/ caps.armSha)
        /\ (ret.kind = "stdlib") <=> (dispatch(caps) = "generic")
        /\ ret.kind = "digest" =>
              /\ ret.d.h = [iv |-> IV, blocks |-> <<>>]
              /\ ret.d.nx = 0
              /\ ret.d.len = 0

\* C13 witness: New on an ARM host, where armSha is the only flag set, has
\* returned a digest.
C13_Witness ==
    /\ op = "New" /\ ret.kind = "digest"
    /\ caps.armSha /\ ~caps.avx2 /\ ~caps.avx /\ ~caps.ssse3
    /\ ret.d.len = 0

\* The slice append(in, hash[:]...) returns: the bytes of in, then the 32
\* digest bytes, each written <<word, shift>>.
Appended(out) == out.prefix \o out.digest.bytes

\* C14: Sum(in) returns in followed by the 32-byte digest of the bytes
\* written so far.  The result is len(in) + 32 long, starts with in, and ends
\* with the 8 final hash words, word i in bytes 4i..4i+3, most significant
\* byte first.
C14_SumOutput ==
    (op = "Sum" /\ ret.kind = "sum") =>
        /\ Len(Appended(ret.out)) = Len(ret.in) + 32
        /\ Take(Appended(ret.out), Len(ret.in)) = ret.in
        /\ ret.out.digest.h = Final.d.h
        /\ ret.out.digest.h = Chain([iv |-> IV, blocks |-> <<>>], fed \o Final.calls)
        /\ Take(Flatten(ret.out.digest.h.blocks), Len(m)) = m
        /\ \A i \in 0..7 : \A k \in 0..3 :
              Appended(ret.out)[Len(ret.in) + 4 * i + k + 1] = <<i, 8 * (3 - k)>>

\* C14 witness: Sum with a two-byte prefix has returned after 65 bytes were
\* written.
C14_Witness ==
    /\ op = "Sum" /\ ret.kind = "sum"
    /\ ret.in = <<7, 9>>
    /\ Len(m) = 65
    /\ Len(Appended(ret.out)) = 34

\* What an instance holds: h, nx, len and the buffered bytes x[0:nx].
Core(dig) == [h |-> dig.h, nx |-> dig.nx, len |-> dig.len, buf |-> Take(dig.x, dig.nx)]

\* C15: instance independence.  With two processes stepping through Reset,
\* Write and Sum on their own instances in any interleaving, the flags only
\* read, each instance at rest holds what a run alone over its own bytes
\* leaves, no process is inside an operation of the other's instance, and
\* every digest a process took is the digest of its own bytes.
C15_Independence ==
    \A i \in Procs :
        /\ procs[i].pc = "idle" =>
              Core(procs[i].d) = Core(Write(caps, Reset(ZeroDigest), procs[i].m).d)
        /\ procs[i].pc \in {"pad", "length"} =>
              Core(procs[i].d) = Core(Write(caps, Reset(ZeroDigest), procs[i].m).d)
        /\ \A k \in 1..Len(procs[i].out) :
              procs[i].out[k].digest = Sum256(caps, procs[i].out[k].msg).digest

\* C15 witness: process 1 is inside its second Write, the buffer of 63 bytes
\* filled and compressed, while process 2 is inside the Sum of its own 65
\* bytes, the padding written to its copy.
C15_Witness ==
    /\ procs[1].pc = "direct" /\ Len(procs[1].m) = 128
    /\ procs[1].d.nx = 0 /\ Len(procs[1].d.h.blocks) = 1
    /\ procs[2].pc = "length" /\ Len(procs[2].m) = 65
    /\ procs[2].d0.len = 120 /\ procs[2].d.len = 65

\* The digest of the empty input as the claim C16 gives it (63 digits).
ClaimedEmpty ==
    <<14, 3, 11, 0, 12, 4, 4, 2, 9, 8, 15, 12, 1, 12, 1, 4,
      9, 10, 15, 11, 15, 4, 12, 8, 9, 9, 6, 15, 11, 9, 2, 4,
      2, 7, 10, 14, 4, 1, 14, 4, 6, 4, 9, 11, 9, 3, 4, 12,
      10, 4, 9, 5, 9, 9, 1, 11, 7, 8, 5, 2, 11, 8, 5>>

\* SHA-256 of the empty input.
EmptyDigest ==
    <<14, 3, 11, 0, 12, 4, 4, 2, 9, 8, 15, 12, 1, 12, 1, 4,
      9, 10, 15, 11, 15, 4, 12, 8, 9, 9, 6, 15, 11, 9, 2, 4,
      2, 7, 10, 14, 4, 1, 14, 4, 6, 4, 9, 11, 9, 3, 4, 12,
      10, 4, 9, 5, 9, 9, 1, 11, 7, 8, 5, 2, 11, 8, 5, 5>>

\* SHA-256 of "abc".
AbcDigest ==
    <<11, 10, 7, 8, 1, 6, 11, 15, 8, 15, 0, 1, 12, 15, 14, 10,
      4, 1, 4, 1, 4, 0, 13, 14, 5, 13, 10, 14, 2, 2, 2, 3,
      11, 0, 0, 3, 6, 1, 10, 3, 9, 6, 1, 7, 7, 10, 9, 12,
      11, 4, 1, 0, 15, 15, 6, 1, 15, 2, 0, 0, 1, 5, 10, 13>>

\* C16 as stated: every digest of Sum256 is 32 bytes, the digest of the empty
\* input is e3b0c442...7852b85 and the digest of "abc" is ba7816bf...f20015ad.
C16_KnownVectorsAsStated ==
    op = "Sum256" =>
        /\ ret.kind = "value"
        /\ Len(ret.out.bytes) = 32
        /\ ret.data \in {<<>>, Abc} => Len(DigestBytes(ret.out)) = 32
        /\ ret.data = <<>> => Hex(DigestBytes(ret.out)) = ClaimedEmpty
        /\ ret.data = Abc => Hex(DigestBytes(ret.out)) = AbcDigest

\* C16, amended: every digest of Sum256 is 32 bytes, the digest of the empty
\* input is e3b0c442...7852b855 (64 digits) and the digest of "abc" is
\* ba7816bf...f20015ad.
C16_KnownVectors ==
    op = "Sum256" =>
        /\ ret.kind = "value"
        /\ Len(ret.out.bytes) = 32
        /\ ret.data \in {<<>>, Abc} => Len(DigestBytes(ret.out)) = 32
        /\ ret.data = <<>> => Hex(DigestBytes(ret.out)) = EmptyDigest
        /\ ret.data = Abc => Hex(DigestBytes(ret.out)) = AbcDigest

\* C16 witness: Sum256 of "abc" has returned its digest after one call of
\* the backend.
C16_Witness ==
    /\ op = "Sum256" /\ ret.kind = "value"
    /\ ret.data = Abc
    /\ Len(ret.calls) = 1
    /\ Hex(DigestBytes(ret.out)) = AbcDigest

\* The bytes handed to the backend since Reset, in order, when the calls of
\* a finalization follow those made so far.
Stream(calls) == Flatten([i \in 1..Len(fed \o calls) |-> (fed \o calls)[i].run])

\* The least k >= 0 with L + 1 + k congruent to 56 mod 64.
LeastK(L) ==
    CHOOSE k \in 0..63 :
        /\ (L + 1 + k) % 64 = 56
        /\ \A j \in 0..(k - 1) : (L + 1 + j) % 64 # 56

\* The layout of the stream: the L bytes of m, then the padding.
PaddedLayout(stream, len, L) ==
    /\ Take(stream, L) = m
    /\ Drop(stream, L) = <<128>> \o Zeros(LeastK(L)) \o BigEndian8(8 * L)
    /\ len = L + 1 + LeastK(L) + 8
    /\ Len(stream) = len

PaddedLayoutOf(fin) == PaddedLayout(Stream(fin.calls), fin.d.len, Len(m))

\* C17: padded-message layout.  After the L bytes of the message the backend
\* is fed 0x80, then the least number k of zeros with L + 1 + k = 56 mod 64,
\* then the 8 big-endian bytes of 8 * L, where L is the length before the
\* padding: the Writes of the padding raise len, the encoded value is not
\* changed by them.
C17_PaddedLayout ==
    /\ d.len = Len(m)
    /\ PaddedLayoutOf(Final)

\* C17 witness: Sum after 55 bytes, where no zero follows the 0x80: the one
\* block ends 0x80, then the eight bytes of 440 = 0x01b8.
C17_Witness ==
    /\ op = "Sum" /\ ret.kind = "sum"
    /\ Len(m) = 55 /\ LeastK(Len(m)) = 0
    /\ ret.copy.h.blocks[1][56] = 128
    /\ ret.copy.h.blocks[1][63] = 1 /\ ret.copy.h.blocks[1][64] = 184
    /\ ret.copy.len = 64

\* The contract on the calls made: every run is a positive multiple of 64
\* bytes long, the calls go to one variant, and h is the chain from the IV
\* over the calls, whose blocks are the 64-byte pieces of the runs in order.
CallContract(calls, h) ==
    /\ \A i \in 1..Len(calls) :
          /\ Len(calls[i].run) > 0
          /\ Len(calls[i].run) % chunk = 0
          /\ calls[i].variant = dispatch(caps)
    /\ h = Chain([iv |-> IV, blocks |-> <<>>], calls)
    /\ h.iv = IV
    /\ Len(h.blocks) * chunk = Len(Flatten([i \in 1..Len(calls) |-> calls[i].run]))
    /\ Flatten(h.blocks) = Flatten([i \in 1..Len(calls) |-> calls[i].run])

CallContractOf(fin) == CallContract(fed \o fin.calls, fin.d.h)

\* C18: backend call contract.  Every call Write or checkSum makes to the
\* backend passes a run whose length is a positive multiple of 64, never
\* empty and never with a partial block, and the calls are chained on the
\* same h: each block is compressed from the state the block before left.
C18_CallContract ==
    /\ CallContract(fed, d.h)
    /\ CallContractOf(Final)

\* C18 witness: a Write handed a run of two blocks to the backend in one
\* call, and the Sum after it made one more call, on the padding block.
C18_Witness ==
    /\ op = "Sum" /\ ret.kind = "sum"
    /\ Len(fed) = 1 /\ Len(fed[1].run) = 128
    /\ Len(d.h.blocks) = 2
    /\ Len(ret.copy.h.blocks) = 3

\* The Write w on the instance and the Write f of the same bytes on a new
\* instance agree: the same calls of the backend, the same h, nx, len and
\* buffered bytes, and finalization makes the same calls and returns the same
\* digest.
SameAsFresh(w, f) ==
    /\ w.calls = f.calls
    /\ Core(w.d) = Core(f.d)
    /\ checkSum(caps, w.d).calls = checkSum(caps, f.d).calls
    /\ checkSum(caps, w.d).digest = checkSum(caps, f.d).digest

\* C19: Reset restores fresh behaviour.  After Reset, whatever Writes and
\* Sums came before and whatever they left in x, writing any bytes and
\* finalizing makes the calls of the backend and gives the digest that a new
\* instance given the same bytes does: no byte left in x reaches the backend.
C19_ResetFresh ==
    op = "Reset" =>
        /\ Core(d) = Core(New(caps).d)
        /\ \A p \in Inputs : SameAsFresh(Write(caps, d, p), Write(caps, New(caps).d, p))

\* C19 witness: Reset after a Write and a Sum, with bytes of the Write still
\* in x.
C19_Witness ==
    /\ op = "Reset" /\ taken # <<>>
    /\ Len(taken[1].msg) = 65
    /\ d.x # New(caps).d.x
    /\ d.nx = 0 /\ d.len = 0

====
